---- MODULE Spec2Model ----
(***************************************************************************)
(* A model of server.py: the single-client adventure game socket server.   *)
(* Text is modelled as TLA+ strings, which TLC treats as sequences of      *)
(* characters (Len, \o, SubSeq, Head and Tail apply to them), so that      *)
(* strip, split, join, lower and startswith are computed character by      *)
(* character as Python computes them.                                      *)
(***************************************************************************)
EXTENDS Integers, Sequences, FiniteSets, TLC

\* ------------------------------------------------------------------ bounds

\* The number of lines the client sends over the life of the connection.
MaxLines == 3

\* The number of bytes the client may have in flight (sent, not yet received).
MaxWire == 24

\* The turns of get_input's loop followed after the stream has ended.
MaxEofReads == 2

\* ----------------------------------------------------- program constants

\* self.client_connection.recv(16)
RecvSize == 16

\* Python's None.  "{}".format(None) is the text "None"; no room description
\* and no response body of the program is that text.
None == "None"

game_name == "Explore the Andromeda Timecraft (ATC) Serendipity"

craft_plaque ==
    "\n\n\"ATC Serendipity (KTIME01)"
    \o "\n\n'The universe, in its infinite perfection, is "
    \o "merely an unlikely series of Serendipities.' - "
    \o "Stella Starchelle (The Mother of Interstellar "
    \o "Flight), 0 SFE (Space Faring Era)"
    \o "\n\nThis Timecraft is an Ekiya Glide Company 256 "
    \o "Glyde Gx 2350 Temporal Edition commissioned on "
    \o "03/17/32915 SFE by the AHC Department of Temporal Integrity:"
    \o "\n\nKima Amber Metoyo (Temporal Operative)"
    \o "\nAstra Jayne Matsume (Temporal Analyst)"
    \o "\nDelilah Quincy Matsuka (Temporal Developer)\""

rooms ==
    [r \in 0..3 |->
        CASE r = 0 -> "You are at the temporal developer console.  The curved glass screen displays the tmpOrl IDE and the code to fold the time craft through the fourth dimension (time)."
          [] r = 1 -> "You are at the port side of the timecraft.  The only thing here is a small control panel for opening the glass windshield of the timecraft.  The controls are greyed out with the word 'Unauthorized' overlayed on them."
          [] r = 2 -> "You are at the starbord side of the timecraft.  There is a plaque on the wall that reads: " \o craft_plaque
          [] r = 3 -> "You are at the front of the timecraft.  The temporal operative and temporal analyst would sit here to guide the craft.  On the dashboard, the chronotonium temporal filament sparkles in a dazzling array of colors underneith a dome of glass."]

\* Mutant of room_description: room 3 described with the text of room 1.
room_description_copied(room_number) ==
    IF room_number \in DOMAIN rooms
    THEN rooms[IF room_number = 3 THEN 1 ELSE room_number]
    ELSE None

\* rooms.get(room_number): None for a key that is not in the dictionary.
room_description(room_number) ==
    IF room_number \in DOMAIN rooms THEN rooms[room_number] ELSE None

\* ------------------------------------------------- Python's str operations
\*
\* Python evaluates an argument once, before the call: the operators below that use
\* an argument several times take it through a one-element set, CHOOSE v \in
\* {f(x) : x \in {e}} : TRUE, which is f(e) with e evaluated once.

Char(s, i) == SubSeq(s, i, i)

SetMin(S) == CHOOSE x \in S : \A y \in S : x <= y

SetMax(S) == CHOOSE x \in S : \A y \in S : y <= x

\* c in s, for a one-character c
Contains(s, c) == \E i \in 1..Len(s) : Char(s, i) = c

\* The white space str.strip() removes, among the characters of the model.
Whitespace == {" ", "\t", "\n", "\r", "\f"}

\* str.strip()
strip(s) ==
    LET keep == {i \in 1..Len(s) : Char(s, i) \notin Whitespace}
    IN  IF keep = {} THEN "" ELSE SubSeq(s, SetMin(keep), SetMax(keep))

UpperLetters == "ABCDEFGHIJKLMNOPQRSTUVWXYZ"

LowerLetters == "abcdefghijklmnopqrstuvwxyz"

lower_char(c) ==
    LET at == {i \in 1..Len(UpperLetters) : Char(UpperLetters, i) = c}
    IN  IF at = {} THEN c ELSE Char(LowerLetters, SetMin(at))

\* str.lower()
RECURSIVE lower(_)
lower(s) ==
    CHOOSE lowered \in
        {IF text = "" THEN "" ELSE lower_char(Head(text)) \o lower(Tail(text)) :
             text \in {s}} : TRUE

\* str.startswith(prefix)
startswith(s, prefix) ==
    Len(s) >= Len(prefix) /\ SubSeq(s, 1, Len(prefix)) = prefix

\* str.split(sep) for a one-character sep: every occurrence separates, so two
\* adjacent separators enclose an empty text.
RECURSIVE split(_, _)
split(s, sep) ==
    CHOOSE parts \in
        {LET at == {i \in 1..Len(text) : Char(text, i) = sep}
         IN  IF at = {} THEN <<text>>
             ELSE <<SubSeq(text, 1, SetMin(at) - 1)>>
                      \o split(SubSeq(text, SetMin(at) + 1, Len(text)), sep) :
             text \in {s}} : TRUE

\* sep.join(parts)
RECURSIVE join(_, _)
join(sep, parts) ==
    IF parts = <<>> THEN ""
    ELSE IF Len(parts) = 1 THEN parts[1]
    ELSE parts[1] \o sep \o join(sep, Tail(parts))

\* ------------------------------------------------------------------ state

VARIABLES
    pc,                 \* where serve() stands
    input_buffer,       \* self.input_buffer
    output_buffer,      \* self.output_buffer
    done,               \* self.done
    socket,             \* self.socket: "none", "listening", "closed"
    client_connection,  \* self.client_connection: "none", "open", "closed"
    room,               \* self.room
    msg,                \* get_input's local msg
    wire,               \* bytes the client has sent and recv has not returned yet
    peer_closed,        \* the client has closed its end of the stream
    lines_sent,         \* lines the client has sent
    accepted,           \* connections accept() has returned
    nread,              \* completed calls of get_input
    nrouted,            \* completed calls of route
    nsent,              \* completed calls of sendall
    last_sent,          \* the bytes of the latest sendall
    eof_reads           \* calls of recv that returned b"" (end of stream)

vars == <<pc, input_buffer, output_buffer, done, socket, client_connection, room,
          msg, wire, peer_closed, lines_sent, accepted, nread, nrouted, nsent,
          last_sent, eof_reads>>

server_fields == <<input_buffer, output_buffer, done, room>>

sockets == <<socket, client_connection, accepted>>

client_vars == <<wire, peer_closed, lines_sent>>

counters == <<nread, nrouted, nsent, last_sent>>

\* The lines the client chooses from (each is sent followed by a line-feed).
ClientLines ==
    { "move north", "MOVE NORTH", "move south", "move east", "move west",
      "MoVe WeSt", "move", "move up", "move  north",
      "say", "say Hello there!", "SAY  hi",
      "quit", "QUIT now",
      "", "dance" }

\* The lines the client sends without waiting for the response to the line before.
PipelinedLines == {"quit", "move south"}

\* Mutant of Init: the rooms counted from one, self.room = 1.
Init_one_based ==
    /\ pc = "connect"
    /\ input_buffer = ""
    /\ output_buffer = ""
    /\ done = FALSE
    /\ socket = "none"
    /\ client_connection = "none"
    /\ room = 1
    /\ msg = ""
    /\ wire = ""
    /\ peer_closed = FALSE
    /\ lines_sent = 0
    /\ accepted = 0
    /\ nread = 0
    /\ nrouted = 0
    /\ nsent = 0
    /\ last_sent = ""
    /\ eof_reads = 0

\* Server.__init__
Init ==
    /\ pc = "connect"
    /\ input_buffer = ""
    /\ output_buffer = ""
    /\ done = FALSE
    /\ socket = "none"
    /\ client_connection = "none"
    /\ room = 0
    /\ msg = ""
    /\ wire = ""
    /\ peer_closed = FALSE
    /\ lines_sent = 0
    /\ accepted = 0
    /\ nread = 0
    /\ nrouted = 0
    /\ nsent = 0
    /\ last_sent = ""
    /\ eof_reads = 0

\* ----------------------------------------------------------------- client

\* The client writes one line and its line-feed to the stream: any line when
\* nothing is in flight, and one of PipelinedLines behind bytes still in flight.
ClientSend ==
    /\ client_connection = "open"
    /\ ~peer_closed
    /\ lines_sent < MaxLines
    /\ \E line \in (IF wire = "" THEN ClientLines ELSE PipelinedLines) :
          /\ Len(wire) + Len(line) + 1 <= MaxWire
          /\ wire' = wire \o line \o "\n"
    /\ lines_sent' = lines_sent + 1
    /\ UNCHANGED <<pc, server_fields, sockets, msg, peer_closed, counters, eof_reads>>

\* The client closes its end of the stream.  The server can tell only where recv
\* finds nothing in flight or where sendall is about to run, and a close commutes
\* with every other step of the server, so it is taken at those places alone.
ClientClose ==
    /\ client_connection = "open"
    /\ ~peer_closed
    /\ \/ pc \in {"push_greeting", "push_output"}
       \/ pc = "get_input" /\ wire = "" /\ ~Contains(msg, "\n")
    /\ peer_closed' = TRUE
    /\ UNCHANGED <<pc, server_fields, sockets, msg, wire, lines_sent, counters,
                   eof_reads>>

\* ----------------------------------------------------------------- server

\* Mutant of connect: serve goes from connect straight into its loop, without
\* greet and push_output.
connect_then_read ==
    /\ pc = "connect"
    /\ socket' = "listening"
    /\ client_connection' = "open"
    /\ accepted' = accepted + 1
    /\ pc' = "get_input"
    /\ UNCHANGED <<server_fields, msg, client_vars, counters, eof_reads>>

\* Server.connect: bind, listen, and accept one connection.
connect ==
    /\ pc = "connect"
    /\ socket' = "listening"
    /\ client_connection' = "open"
    /\ accepted' = accepted + 1
    /\ pc' = "greet"
    /\ UNCHANGED <<server_fields, msg, client_vars, counters, eof_reads>>

\* Server.greet
greet ==
    /\ pc = "greet"
    /\ output_buffer' = "Welcome to " \o game_name \o "! " \o room_description(room)
    /\ pc' = "push_greeting"
    /\ UNCHANGED <<input_buffer, done, room, sockets, msg, client_vars, counters,
                   eof_reads>>

\* Mutant of framed: "OK! " before every body, as push_output's docstring words it.
framed_always_ok(buffer) == "OK! " \o buffer \o " \n"

\* Mutant of framed: the line-feed left off the end.
framed_unterminated(buffer) ==
    IF startswith(buffer, "Bad!")
    THEN buffer \o " "
    ELSE "OK! " \o buffer \o " "

\* The bytes Server.push_output hands to sendall.
framed(buffer) ==
    IF startswith(buffer, "Bad!")
    THEN buffer \o " \n"
    ELSE "OK! " \o buffer \o " \n"

\* Mutant of after_push: the loop test inverted, "while self.done".
after_push_inverted(is_done) == IF is_done THEN "get_input" ELSE "close_client"

\* serve's loop test, "while not self.done": where serve goes after a push_output.
after_push(is_done) == IF ~is_done THEN "get_input" ELSE "close_client"

\* Server.push_output, called after greet and after route; sendall succeeds.
push_output ==
    /\ pc \in {"push_greeting", "push_output"}
    /\ last_sent' = framed(output_buffer)
    /\ nsent' = nsent + 1
    /\ pc' = after_push(done)
    /\ UNCHANGED <<server_fields, sockets, msg, client_vars, nread, nrouted, eof_reads>>

\* Server.push_output when sendall raises (the peer is gone): the exception leaves
\* serve, and neither close() runs.
push_output_raises ==
    /\ pc \in {"push_greeting", "push_output"}
    /\ peer_closed
    /\ pc' = "raised"
    /\ UNCHANGED <<server_fields, sockets, msg, client_vars, counters, eof_reads>>

\* One turn of get_input's loop: no line-feed in msg yet, recv returns between one
\* and RecvSize of the bytes in flight.
get_input_recv ==
    /\ pc = "get_input"
    /\ ~Contains(msg, "\n")
    /\ wire # ""
    /\ \E k \in 1..(IF Len(wire) < RecvSize THEN Len(wire) ELSE RecvSize) :
          /\ msg' = msg \o SubSeq(wire, 1, k)
          /\ wire' = SubSeq(wire, k + 1, Len(wire))
    /\ UNCHANGED <<pc, server_fields, sockets, peer_closed, lines_sent, counters,
                   eof_reads>>

\* One turn of get_input's loop after the peer closed: recv returns b"" at once,
\* msg stays as it is and the loop goes round again, without end; the model
\* follows the first MaxEofReads turns.
get_input_recv_eof ==
    /\ pc = "get_input"
    /\ ~Contains(msg, "\n")
    /\ wire = ""
    /\ peer_closed
    /\ eof_reads < MaxEofReads
    /\ msg' = msg \o ""
    /\ eof_reads' = eof_reads + 1
    /\ UNCHANGED <<pc, server_fields, sockets, client_vars, counters>>

\* Mutant of get_input_return: get_input returns after the first bytes received,
\* line-feed or not.
get_input_return_early ==
    /\ pc = "get_input"
    /\ msg # ""
    /\ input_buffer' = strip(msg)
    /\ msg' = ""
    /\ nread' = nread + 1
    /\ pc' = "route"
    /\ UNCHANGED <<output_buffer, done, room, sockets, client_vars, nrouted, nsent,
                   last_sent, eof_reads>>

\* get_input leaves its loop: msg holds a line-feed.
get_input_return ==
    /\ pc = "get_input"
    /\ Contains(msg, "\n")
    /\ input_buffer' = strip(msg)
    /\ msg' = ""
    /\ nread' = nread + 1
    /\ pc' = "route"
    /\ UNCHANGED <<output_buffer, done, room, sockets, client_vars, nrouted, nsent,
                   last_sent, eof_reads>>

\* Mutant of move_edge: the way north is one-way, room 3 has no way south.
move_edge_no_return(self_room, argument) ==
    CASE argument = "north" /\ self_room = 0 -> [taken |-> TRUE, room |-> 3]
      [] argument = "east" /\ self_room = 0 -> [taken |-> TRUE, room |-> 1]
      [] argument = "east" /\ self_room = 2 -> [taken |-> TRUE, room |-> 0]
      [] argument = "west" /\ self_room = 0 -> [taken |-> TRUE, room |-> 2]
      [] argument = "west" /\ self_room = 1 -> [taken |-> TRUE, room |-> 0]
      [] OTHER -> [taken |-> FALSE, room |-> self_room]

\* Mutant of move_edge: east and west as the class docstring's map draws them,
\* room 1 to the west of room 0 and room 2 to its east.
move_edge_as_drawn(self_room, argument) ==
    CASE argument = "north" /\ self_room = 0 -> [taken |-> TRUE, room |-> 3]
      [] argument = "south" /\ self_room = 3 -> [taken |-> TRUE, room |-> 0]
      [] argument = "west" /\ self_room = 0 -> [taken |-> TRUE, room |-> 1]
      [] argument = "west" /\ self_room = 2 -> [taken |-> TRUE, room |-> 0]
      [] argument = "east" /\ self_room = 0 -> [taken |-> TRUE, room |-> 2]
      [] argument = "east" /\ self_room = 1 -> [taken |-> TRUE, room |-> 0]
      [] OTHER -> [taken |-> FALSE, room |-> self_room]

\* Server.move's if/elif chain: whether a branch other than the else was taken,
\* and self.room after it.
move_edge(self_room, argument) ==
    CASE argument = "north" /\ self_room = 0 -> [taken |-> TRUE, room |-> 3]
      [] argument = "south" /\ self_room = 3 -> [taken |-> TRUE, room |-> 0]
      [] argument = "east" /\ self_room = 0 -> [taken |-> TRUE, room |-> 1]
      [] argument = "east" /\ self_room = 2 -> [taken |-> TRUE, room |-> 0]
      [] argument = "west" /\ self_room = 0 -> [taken |-> TRUE, room |-> 2]
      [] argument = "west" /\ self_room = 1 -> [taken |-> TRUE, room |-> 0]
      [] OTHER -> [taken |-> FALSE, room |-> self_room]

\* Mutant of move: the refusal without its "Bad!" marker.
move_unmarked(self_room, self_done, argument) ==
    CHOOSE after \in
        {LET text == IF edge.taken
                     THEN room_description(edge.room)
                     ELSE "You cannot move in that direction."
         IN  IF text = None \/ text = ""
             THEN [room |-> 0,
                   done |-> self_done,
                   output_buffer |->
                       "You have some how entered an invalid state and the "
                       \o "timeline is collapsing!  You feel an unnerving lurch "
                       \o "as you are torn from the colapsing timeline and "
                       \o "returned to a stable timeline."]
             ELSE [room |-> edge.room, done |-> self_done, output_buffer |-> text] :
             edge \in {move_edge(self_room, direction) :
                          direction \in {lower(argument)}}} : TRUE

\* Server.move: the fields it leaves behind.
move(self_room, self_done, argument) ==
    CHOOSE after \in
        {LET text == IF edge.taken
                     THEN room_description(edge.room)
                     ELSE "Bad! You cannot move in that direction."
         IN  IF text = None \/ text = ""
             THEN [room |-> 0,
                   done |-> self_done,
                   output_buffer |->
                       "You have some how entered an invalid state and the "
                       \o "timeline is collapsing!  You feel an unnerving lurch "
                       \o "as you are torn from the colapsing timeline and "
                       \o "returned to a stable timeline."]
             ELSE [room |-> edge.room, done |-> self_done, output_buffer |-> text] :
             edge \in {move_edge(self_room, direction) :
                          direction \in {lower(argument)}}} : TRUE

\* Mutant of say: the utterance lower-cased like a command.
say_lowered(self_room, self_done, argument) ==
    [room |-> self_room,
     done |-> self_done,
     output_buffer |-> "You say, \"" \o lower(argument) \o "\""]

\* Server.say
say(self_room, self_done, argument) ==
    [room |-> self_room,
     done |-> self_done,
     output_buffer |-> "You say, \"" \o argument \o "\""]

\* Mutant of quit: self.done is left as it was.
quit_keeps_running(self_room, self_done, argument) ==
    [room |-> self_room, done |-> self_done, output_buffer |-> "Goodbye!"]

\* Server.quit
quit(self_room, self_done, argument) ==
    [room |-> self_room, done |-> TRUE, output_buffer |-> "Goodbye!"]

\* Mutant of route_action: the argument with the white space around it removed.
route_action_stripped(buffer) == strip(join(" ", Tail(split(buffer, " "))))

\* Server.route's parse of the input buffer.
route_command(buffer) == lower(split(buffer, " ")[1])

\* Server.route: the text after the first space, further spaces kept.
route_action(buffer) == join(" ", Tail(split(buffer, " ")))

\* Mutant of route_fields: the guidance without its "Bad!" marker.
route_fields_unmarked(self_room, self_done, buffer) ==
    CHOOSE after \in
        {CASE command = "quit" -> quit(self_room, self_done, action)
           [] command = "say" -> say(self_room, self_done, action)
           [] command = "move" -> move(self_room, self_done, action)
           [] OTHER -> [room |-> self_room,
                        done |-> self_done,
                        output_buffer |-> "You can either move, say, or quit."] :
             command \in {route_command(buffer)},
             action \in {route_action(buffer)}} : TRUE

\* Server.route: the fields it leaves behind.
route_fields(self_room, self_done, buffer) ==
    CHOOSE after \in
        {CASE command = "quit" -> quit(self_room, self_done, action)
           [] command = "say" -> say(self_room, self_done, action)
           [] command = "move" -> move(self_room, self_done, action)
           [] OTHER -> [room |-> self_room,
                        done |-> self_done,
                        output_buffer |-> "Bad! You can either move, say, or quit."] :
             command \in {route_command(buffer)},
             action \in {route_action(buffer)}} : TRUE

\* Mutant of route: the response is added to what the output buffer held.
route_appending ==
    /\ pc = "route"
    /\ LET after == route_fields(room, done, input_buffer)
       IN  /\ room' = after.room
           /\ done' = after.done
           /\ output_buffer' = output_buffer \o after.output_buffer
    /\ nrouted' = nrouted + 1
    /\ pc' = "push_output"
    /\ UNCHANGED <<input_buffer, sockets, msg, client_vars, nread, nsent, last_sent,
                   eof_reads>>

\* Server.route
route ==
    /\ pc = "route"
    /\ LET after == route_fields(room, done, input_buffer)
       IN  /\ room' = after.room
           /\ done' = after.done
           /\ output_buffer' = after.output_buffer
    /\ nrouted' = nrouted + 1
    /\ pc' = "push_output"
    /\ UNCHANGED <<input_buffer, sockets, msg, client_vars, nread, nsent, last_sent,
                   eof_reads>>

\* serve: self.client_connection.close()
close_client_connection ==
    /\ pc = "close_client"
    /\ client_connection' = "closed"
    /\ pc' = "close_socket"
    /\ UNCHANGED <<server_fields, socket, accepted, msg, client_vars, counters,
                   eof_reads>>

\* serve: self.socket.close()
close_socket ==
    /\ pc = "close_socket"
    /\ socket' = "closed"
    /\ pc' = "closed"
    /\ UNCHANGED <<server_fields, client_connection, accepted, msg, client_vars,
                   counters, eof_reads>>

Next ==
    \/ ClientSend
    \/ ClientClose
    \/ connect
    \/ greet
    \/ push_output
    \/ push_output_raises
    \/ get_input_recv
    \/ get_input_recv_eof
    \/ get_input_return
    \/ route
    \/ close_client_connection
    \/ close_socket

Spec == Init /\ [][Next]_vars

\* The values a test harness writes into self.room, none of them a room.
InjectedRooms == {-1, 4}

\* Server.__init__ followed by a harness's assignment to self.room.
InitInjected ==
    /\ pc = "connect"
    /\ input_buffer = ""
    /\ output_buffer = ""
    /\ done = FALSE
    /\ socket = "none"
    /\ client_connection = "none"
    /\ room \in InjectedRooms
    /\ msg = ""
    /\ wire = ""
    /\ peer_closed = FALSE
    /\ lines_sent = 0
    /\ accepted = 0
    /\ nread = 0
    /\ nrouted = 0
    /\ nsent = 0
    /\ last_sent = ""
    /\ eof_reads = 0

\* serve run on a Server whose room a harness has set.
SpecInjected == InitInjected /\ [][Next]_vars

\* A client that sends whole lines one at a time, each after the response to the
\* line before (the greeting before the first), never closes the stream, and sends
\* a quit line as its last line at the latest.
PoliteSend ==
    /\ client_connection = "open"
    /\ ~peer_closed
    /\ lines_sent < MaxLines
    /\ wire = ""
    /\ nsent = lines_sent + 1
    /\ \E line \in (IF lines_sent = MaxLines - 1
                    THEN {"quit", "QUIT now"}
                    ELSE ClientLines) :
          wire' = wire \o line \o "\n"
    /\ lines_sent' = lines_sent + 1
    /\ UNCHANGED <<pc, server_fields, sockets, msg, peer_closed, counters,
                   eof_reads>>

\* The steps serve takes while the peer stays connected.
ServerStep ==
    \/ connect
    \/ greet
    \/ push_output
    \/ get_input_recv
    \/ get_input_return
    \/ route
    \/ close_client_connection
    \/ close_socket

PoliteNext ==
    \/ PoliteSend
    \/ ServerStep

\* serve facing the polite client: the server, a sequential program, takes its
\* next step whenever it has one, and the client goes on to its next line.
PoliteSpec ==
    /\ Init
    /\ [][PoliteNext]_vars
    /\ WF_vars(ServerStep)
    /\ WF_vars(PoliteSend)

\* ------------------------------------------------- the claims' vocabulary

\* The place of the first space of a line, 0 when it holds none.
FirstSpace(line) ==
    LET at == {i \in 1..Len(line) : Char(line, i) = " "}
    IN  IF at = {} THEN 0 ELSE SetMin(at)

\* A line's verb: the text before its first space.
VerbOf(line) ==
    IF FirstSpace(line) = 0 THEN line ELSE SubSeq(line, 1, FirstSpace(line) - 1)

\* A line's argument: the text after its first space, empty when there is none.
ArgOf(line) ==
    IF FirstSpace(line) = 0 THEN ""
    ELSE SubSeq(line, FirstSpace(line) + 1, Len(line))

IsVerb(line, verb) == lower(VerbOf(line)) = verb

\* The documented edges: <<room, direction, destination>>.
Edges ==
    { <<0, "north", 3>>, <<3, "south", 0>>, <<0, "east", 1>>,
      <<1, "west", 0>>, <<0, "west", 2>>, <<2, "east", 0>> }

HasEdge(from, direction) == \E e \in Edges : e[1] = from /\ e[2] = direction

RejectedMove == "Bad! You cannot move in that direction."

Guidance == "Bad! You can either move, say, or quit."

Greeting == "Welcome to " \o game_name \o "! " \o rooms[0]

\* A step in which sendall completes.
Transmits == nsent' = nsent + 1

\* A step in which route runs.
Routes == nrouted' = nrouted + 1

C3_RoomValid ==
    /\ room \in {0, 1, 2, 3}
    /\ pc \in {"connect", "greet", "push_greeting"} => room = 0

\* The session has moved, been refused a move, and quit in room 1.
C3_Witness ==
    /\ pc = "closed"
    /\ room = 1
    /\ nrouted = 3

C5_Quit ==
    [][/\ (Routes /\ IsVerb(input_buffer, "quit"))
          => (done' /\ output_buffer' = "Goodbye!" /\ room' = room)
       /\ (Transmits /\ pc = "push_output" /\ IsVerb(input_buffer, "quit"))
          => (last_sent' = "OK! Goodbye! \n" /\ pc' = "close_client")
       /\ done
          => (/\ done'
              /\ nread' = nread
              /\ nrouted' = nrouted
              /\ msg' = msg
              /\ pc' \notin {"get_input", "route"})]_vars

\* The session quit in room 3 with an argument, leaving a pipelined line unread.
C5_Witness ==
    /\ pc = "closed"
    /\ done
    /\ room = 3
    /\ input_buffer = "QUIT now"
    /\ last_sent = "OK! Goodbye! \n"
    /\ wire # ""

\* C6: routing a say line leaves exactly You say, "x" for its argument x, case and
\* content kept and the empty argument included, keeps the room and the
\* termination flag, and the response goes out with "OK! ".
C6_Say ==
    [][/\ (Routes /\ IsVerb(input_buffer, "say"))
          => (/\ output_buffer' = "You say, \"" \o ArgOf(input_buffer) \o "\""
              /\ room' = room
              /\ done' = done)
       /\ (Transmits /\ pc = "push_output" /\ IsVerb(input_buffer, "say"))
          => last_sent' = "OK! You say, \"" \o ArgOf(input_buffer) \o "\" \n"]_vars

\* A say with no argument has been answered in room 2.
C6_Witness ==
    /\ pc = "get_input"
    /\ input_buffer = "say"
    /\ room = 2
    /\ ~done
    /\ last_sent = "OK! You say, \"\" \n"

C9_WholeLine ==
    [][/\ nread' = nread + 1 => (pc = "get_input" /\ Contains(msg, "\n"))
       /\ (pc = "get_input" /\ ~Contains(msg, "\n"))
          => (/\ pc' = "get_input"
              /\ nread' = nread
              /\ nrouted' = nrouted
              /\ nsent' = nsent
              /\ input_buffer' = input_buffer
              /\ output_buffer' = output_buffer)]_vars

\* A line longer than one recv can return has been read whole.
C9_Witness ==
    /\ pc = "route"
    /\ input_buffer = "say Hello there!"
    /\ Len(input_buffer) + 1 > RecvSize

\* The phases of the connection's life; "raised" is serve left by an exception.
Phase(p) ==
    CASE p = "connect" -> "Connecting"
      [] p \in {"greet", "push_greeting"} -> "Greeting"
      [] p = "get_input" -> "AwaitingInput"
      [] p \in {"route", "push_output"} -> "Processing"
      [] p \in {"close_client", "close_socket", "closed"} -> "Closed"
      [] OTHER -> "Raised"

PhaseOrder ==
    { <<"Connecting", "Greeting">>, <<"Greeting", "AwaitingInput">>,
      <<"AwaitingInput", "Processing">>, <<"Processing", "AwaitingInput">>,
      <<"Processing", "Closed">>,
      <<"Greeting", "Raised">>, <<"Processing", "Raised">> }

\* C10: the phases follow Connecting, Greeting, AwaitingInput and Processing in
\* turns, Closed; one connection is accepted; Closed is entered only by the step
\* that transmits the response to a quit line; both sockets are held until then
\* and released in it; nothing is read or written afterwards.
C10_Lifecycle ==
    [][/\ Phase(pc') # Phase(pc) => <<Phase(pc), Phase(pc')>> \in PhaseOrder
       /\ accepted' = (IF pc' = "connect" THEN 0 ELSE 1)
       /\ (Phase(pc) # "Closed" /\ Phase(pc') = "Closed")
          => (/\ Transmits
              /\ IsVerb(input_buffer, "quit")
              /\ last_sent' = "OK! Goodbye! \n")
       /\ Phase(pc') \in {"Greeting", "AwaitingInput", "Processing"}
          => (client_connection' = "open" /\ socket' = "listening")
       /\ pc' = "closed" => (client_connection' = "closed" /\ socket' = "closed")
       /\ Phase(pc) = "Closed"
          => (/\ Phase(pc') = "Closed"
              /\ nread' = nread
              /\ nrouted' = nrouted
              /\ nsent' = nsent
              /\ msg' = msg)]_vars

\* The whole life has been lived: three lines, the last one quit, both sockets
\* closed.
C10_Witness ==
    /\ pc = "closed"
    /\ accepted = 1
    /\ nrouted = 3
    /\ client_connection = "closed"
    /\ socket = "closed"

\* The end of the first run of spaces of a line, 0 when it holds no space.
RunEnd(line) ==
    LET from == FirstSpace(line)
        ends == {j \in from..Len(line) :
                    /\ \A i \in from..j : Char(line, i) = " "
                    /\ (j = Len(line) \/ Char(line, j + 1) # " ")}
    IN  IF from = 0 THEN 0 ELSE SetMin(ends)

\* A line's argument when the verb ends at a run of spaces: the text after the run.
ArgAfterRun(line) ==
    IF RunEnd(line) = 0 THEN "" ELSE SubSeq(line, RunEnd(line) + 1, Len(line))

\* C11 as stated: the argument is the text after the first run of spaces, so that
\* move, two spaces, north goes from room 0 to room 3, and say, two spaces, hi
\* gives You say, "hi".
C11_WhitespaceRun ==
    [][(Routes /\ ~Contains(input_buffer, "\n"))
          => (/\ (IsVerb(input_buffer, "say"))
                 => output_buffer' = "You say, \"" \o ArgAfterRun(input_buffer) \o "\""
              /\ (/\ IsVerb(input_buffer, "move")
                  /\ room = 0
                  /\ lower(ArgAfterRun(input_buffer)) = "north")
                 => room' = 3)]_vars

\* C11 as amended: the line is cut at its first space alone.  The verb is the text
\* before it, lower-cased; the handler receives all the text after it, further
\* spaces included: say answers with that text as it stands, and a move whose
\* argument begins with a space is refused, so that move, two spaces, north leaves
\* the room at 0 and say, two spaces, hi gives You say, " hi".
C11_FirstSpace ==
    [][Routes
          => (/\ IsVerb(input_buffer, "say")
                 => output_buffer' = "You say, \"" \o ArgOf(input_buffer) \o "\""
              /\ (IsVerb(input_buffer, "move") /\ startswith(ArgOf(input_buffer), " "))
                 => (room' = room /\ output_buffer' = RejectedMove)
              /\ (IsVerb(input_buffer, "move") /\ HasEdge(room, lower(ArgOf(input_buffer))))
                 => output_buffer' = rooms[room']
              /\ (input_buffer = "move  north" /\ room = 0) => room' = 0
              /\ input_buffer = "SAY  hi" => output_buffer' = "You say, \" hi\"")]_vars

\* Move, two spaces, north has been refused in room 0.
C11_Witness ==
    /\ pc = "push_output"
    /\ input_buffer = "move  north"
    /\ room = 0
    /\ output_buffer = RejectedMove

\* C12: the line handed to route holds no line-feed, however the client's bytes
\* arrive.
C12_NoEmbeddedLineFeed == pc = "route" => ~Contains(input_buffer, "\n")

\* C13: once recv has found the stream closed by the peer, with no line-feed
\* seen, get_input does not call recv again.
C13_NoRetryAfterPeerClose == eof_reads <= 1

\* C14: when a write of the greeting or of a response has failed and serve is
\* left, the client connection and the listening socket have been released.
C14_WriteFailureReleases ==
    pc = "raised" => (client_connection = "closed" /\ socket = "closed")

\* C15: a move line routed while the room is none of 0, 1, 2, 3 sets the room to 0
\* and leaves the repair message, not the refusal, whatever its argument.
C15_RepairsInvalidRoom ==
    [][(Routes /\ IsVerb(input_buffer, "move") /\ room \notin {0, 1, 2, 3})
          => (/\ room' = 0
              /\ output_buffer' # RejectedMove
              /\ startswith(output_buffer', "You have some how entered an invalid state"))]_vars

\* The line-feeds a text holds.
LineFeeds(s) == Cardinality({i \in 1..Len(s) : Char(s, i) = "\n"})

\* C16 as stated: every transmitted message holds one line-feed, its last byte
\* (here for the lines that reached route whole).
C16_OneLineFeed ==
    [][(Transmits /\ ~Contains(input_buffer, "\n"))
          => (/\ LineFeeds(last_sent') = 1
              /\ Char(last_sent', Len(last_sent')) = "\n")]_vars

\* C16 as amended: every transmitted message ends in a space and one line-feed
\* that push_output adds, and holds the line-feeds of its body besides: none for
\* the greeting, the farewell, the refusal, the guidance and the descriptions of
\* rooms 0, 1 and 3, those of its argument for a say, and ten for the description
\* of room 2, whose message holds eleven.
C16_TrailingLineFeed ==
    [][Transmits
          => (/\ SubSeq(last_sent', Len(last_sent') - 1, Len(last_sent')) = " \n"
              /\ LineFeeds(last_sent') = LineFeeds(output_buffer) + 1
              /\ output_buffer \in {Greeting, "Goodbye!", RejectedMove, Guidance,
                                    rooms[0], rooms[1], rooms[3]}
                 => LineFeeds(last_sent') = 1
              /\ (pc = "push_output" /\ IsVerb(input_buffer, "say"))
                 => LineFeeds(last_sent') = LineFeeds(ArgOf(input_buffer)) + 1
              /\ output_buffer = rooms[2] => LineFeeds(last_sent') = 11)]_vars

\* The description of room 2 has been sent after a move west.
C16_Witness ==
    /\ pc = "get_input"
    /\ input_buffer = "move west"
    /\ room = 2
    /\ last_sent = "OK! " \o rooms[2] \o " \n"
    /\ LineFeeds(last_sent) = 11

\* C17: no two of the four rooms share a description, so the body left by a
\* successful move is the description of the room the session is in and of no
\* other room.
C17_DescriptionsDistinct ==
    /\ \A r, s \in 0..3 : r # s => room_description(r) # room_description(s)
    /\ (/\ pc = "push_output"
        /\ IsVerb(input_buffer, "move")
        /\ output_buffer # RejectedMove)
       => \A r \in 0..3 : (output_buffer = room_description(r)) <=> (r = room)

\* A move has just succeeded into room 3 and its description is the body.
C17_Witness ==
    /\ pc = "push_output"
    /\ input_buffer = "MOVE NORTH"
    /\ room = 3
    /\ output_buffer = room_description(3)

\* serve has sent its farewell and released both sockets.
ClosedAfterGoodbye ==
    /\ pc = "closed"
    /\ last_sent = "OK! Goodbye! \n"
    /\ client_connection = "closed"
    /\ socket = "closed"

\* C18: facing a client that sends whole lines one at a time and in the end a quit
\* line, serve comes to send "OK! Goodbye!" and to close; and whatever lines came
\* before, a quit line that reaches route leads there.
C18_QuitReachesClosed ==
    /\ <>ClosedAfterGoodbye
    /\ (pc = "route" /\ IsVerb(input_buffer, "quit")) ~> ClosedAfterGoodbye

\* A move, a refused move and then quit: closed in room 2.
C18_Witness ==
    /\ ClosedAfterGoodbye
    /\ room = 2
    /\ nrouted = 3
    /\ lines_sent = 3

Directions == {"north", "south", "east", "west"}

Opposite(direction) ==
    CASE direction = "north" -> "south"
      [] direction = "south" -> "north"
      [] direction = "east" -> "west"
      [] direction = "west" -> "east"

\* What routing the line "move <opposite of direction>" next would leave behind.
MoveBack(from, is_done, direction) ==
    route_fields(from, is_done, "move " \o Opposite(direction))

\* C19: when routing a move line changes the room, routing a move in the opposite
\* direction next succeeds as well and leaves the room the first move started
\* from, with that room's description as the response.
C19_MovesReversible ==
    [][\A d \in Directions :
          (/\ Routes
           /\ IsVerb(input_buffer, "move")
           /\ lower(ArgOf(input_buffer)) = d
           /\ output_buffer' # RejectedMove)
          => /\ room' # room
             /\ MoveBack(room', done', d).room = room
             /\ MoveBack(room', done', d).output_buffer = room_description(room)
             /\ MoveBack(room', done', d).output_buffer # RejectedMove]_vars

\* North and then south: the second routed line is back in room 0.
C19_Witness ==
    /\ pc = "push_output"
    /\ nrouted = 2
    /\ input_buffer = "move south"
    /\ room = 0
    /\ output_buffer = room_description(0)

\* The response the documentation gives a line routed in room r, from the line and
\* the room alone.
ResponseTo(r, line) ==
    CASE IsVerb(line, "quit") -> "Goodbye!"
      [] IsVerb(line, "say") -> "You say, \"" \o ArgOf(line) \o "\""
      [] IsVerb(line, "move") ->
            IF HasEdge(r, lower(ArgOf(line)))
            THEN LET e == CHOOSE e \in Edges :
                              e[1] = r /\ e[2] = lower(ArgOf(line))
                 IN  room_description(e[3])
            ELSE RejectedMove
      [] OTHER -> Guidance

EndsInLineFeed(s) == s # "" /\ Char(s, Len(s)) = "\n"

\* C20: greet leaves the greeting alone in the output buffer, and every routing
\* step leaves there the response to the line it routed and nothing of what the
\* buffer held before; neither ends in a line-feed.
C20_OutputOverwritten ==
    [][/\ (pc = "greet" /\ pc' # pc)
          => (output_buffer' = Greeting /\ ~EndsInLineFeed(output_buffer'))
       /\ Routes
          => /\ output_buffer' = ResponseTo(room, input_buffer)
             /\ ~EndsInLineFeed(output_buffer')]_vars

\* The second routed line: the buffer holds the utterance and nothing of the
\* description the move before it left there.
C20_Witness ==
    /\ pc = "push_output"
    /\ nrouted = 2
    /\ room = 3
    /\ input_buffer = "say Hello there!"
    /\ output_buffer = "You say, \"Hello there!\""

====
